---- MODULE Spec2Model ----
(***************************************************************************)
(* A model of the gravitational N-body simulator in src/src/main.rs.       *)
(*                                                                         *)
(* Every f32 of the program is modelled as a fixed-point number: the       *)
(* integer n stands for the real n / S.  Each arithmetic operator below    *)
(* truncates to that grid (the program rounds to 24 bits of mantissa) and  *)
(* is written so that no intermediate value leaves the 32-bit integers of  *)
(* the model checker.                                                      *)
(***************************************************************************)
EXTENDS Integers, Sequences, FiniteSets, TLC

\* ------------------------------------------------------------------------
\* Fixed-point arithmetic standing for the f32 operations of the program
\* ------------------------------------------------------------------------

\* the fixed-point scale: 1.0 is S
S == 1000

Abs(a) == IF a < 0 THEN -a ELSE a

Sgn(a) == IF a < 0 THEN -1 ELSE 1

Max(a, b) == IF a >= b THEN a ELSE b

Min(a, b) == IF a <= b THEN a ELSE b

\* a * b of two non-negative fixed-point numbers, a >= b
MulU(a, b) == (a \div S) * b + ((a % S) * b) \div S

\* f32 multiplication
Mul(a, b) ==
    Sgn(a) * Sgn(b) * MulU(Max(Abs(a), Abs(b)), Min(Abs(a), Abs(b)))

\* a / b of two non-negative fixed-point numbers, b > 0
DivU(a, b) ==
    IF b < 2000 * S
    THEN (a \div b) * S + ((a % b) * S) \div b
    ELSE a \div (b \div S)

\* f32 division
Div(a, b) == Sgn(a) * Sgn(b) * DivU(Abs(a), Abs(b))

\* the integer square root of n >= 0, one bit at a time from bit b down
RECURSIVE ISqrtBits(_, _, _)
ISqrtBits(n, r, b) ==
    IF b = 0 THEN r
    ELSE LET t == r + b
         IN  ISqrtBits(n, IF t <= n \div t THEN t ELSE r, b \div 2)

ISqrt(n) == ISqrtBits(n, 0, 32768)

\* f32::sqrt
Sqrt(a) ==
    IF a < 2000 * S THEN ISqrt(a * S)
    ELSE IF a < 200000 * S THEN ISqrt(a * 10) * 10
    ELSE ISqrt(a \div 10) * 100

\* y * y for 1.0 <= y < 10.0 held with six decimals (1.0 is 1000000)
SqFine(y) ==
    LET h == y \div 1000
        l == y % 1000
    IN  h * h + (2 * h * l) \div 1000 + (l * l) \div 1000000

\* the binary digits of log10(y) for 1.0 <= y < 10.0 (six decimals), by
\* repeated squaring: k digits left, frac the digits found so far
RECURSIVE Log10Frac(_, _, _)
Log10Frac(y, k, frac) ==
    IF k = 0 THEN frac
    ELSE LET y2 == SqFine(y)
         IN  IF y2 >= 10000000
             THEN Log10Frac(y2 \div 10, k - 1, 2 * frac + 1)
             ELSE Log10Frac(y2, k - 1, 2 * frac)

\* log10 of a > 0 in units of 1/16384
RECURSIVE Log10Fine(_)
Log10Fine(a) ==
    IF a >= 10 * S THEN 16384 + Log10Fine(a \div 10)
    ELSE IF a < S THEN Log10Fine(a * 10) - 16384
    ELSE Log10Frac(a * 1000, 14, 0)

\* f32::log10 of a > 0
Log10(a) == (Log10Fine(a) * S) \div 16384

\* x * y of two numbers held with six decimals, both below 100.0
MulFine(x, y) ==
    LET h1 == x \div 1000
        l1 == x % 1000
        h2 == y \div 1000
        l2 == y % 1000
    IN  h1 * h2 + (h1 * l2 + h2 * l1) \div 1000 + (l1 * l2) \div 1000000

\* 10^(1/2), 10^(1/4), ..., 10^(1/16384) with six decimals
Exp10Bits ==
    << 3162278, 1778279, 1333521, 1154782, 1074608, 1036633, 1018152,
       1009035, 1004507, 1002251, 1001125, 1000562, 1000281, 1000141 >>

\* 10^(l / 16384) with six decimals for 0 <= l < 2 * 16384: the product of
\* the powers of 10 that the binary digits of l select, from digit k on
RECURSIVE Exp10From(_, _, _)
Exp10From(l, k, acc) ==
    IF k > 14 THEN acc
    ELSE Exp10From(l, k + 1,
                   IF (l \div (16384 \div 2 ^ k)) % 2 = 1
                   THEN MulFine(acc, Exp10Bits[k]) ELSE acc)

Exp10Fine(l) ==
    Exp10From(l % 16384, 1, IF l >= 16384 THEN 10000000 ELSE 1000000)

\* f32::powf(0.3) of a, 1.0 <= a < 100000.0: 10^(0.3 * log10(a)), rounded
Powf03(a) == (Exp10Fine((3 * Log10Fine(a) + 5) \div 10) + 500) \div 1000

\* PI, std::f32::consts::PI
PI == 3142

\* cos(a) for 0 <= a <= PI/2, by its Taylor series up to a^8
CosSeries(a) ==
    LET a2 == Mul(a, a)
        a4 == Mul(a2, a2)
        a6 == Mul(a4, a2)
        a8 == Mul(a4, a4)
    IN  S - a2 \div 2 + a4 \div 24 - a6 \div 720 + a8 \div 40320

\* f32::cos of an angle in [-2 PI, 2 PI]
Cos(a) ==
    LET b == IF Abs(a) > PI THEN 2 * PI - Abs(a) ELSE Abs(a)
    IN  IF 2 * b > PI THEN -CosSeries(PI - b) ELSE CosSeries(b)

\* f32::sin of an angle in [0, 2 PI)
Sin(a) == Cos(a - PI \div 2)

\* ------------------------------------------------------------------------
\* Program constants
\* ------------------------------------------------------------------------

WINDOW_WIDTH == 1600000

WINDOW_HEIGHT == 1200000

G == 1000

DT == 16

\* ------------------------------------------------------------------------
\* Particle
\* ------------------------------------------------------------------------

Point2(px, py) == [x |-> px, y |-> py]

\* Particle::new
NewParticle(px, py, mass) ==
    [position |-> Point2(px, py),
     velocity |-> Point2(0, 0),
     acceleration |-> Point2(0, 0),
     mass |-> mass,
     radius |-> Max(Powf03(mass), 2 * S)]

\* std::ptr::eq(self, other) in calculate_acceleration: self is the element
\* at index i of the live collection, other the element at index j of the
\* slice handed in.  The two are the same object only when that slice is the
\* live collection itself (aliased) and i = j; an element of a clone of the
\* collection has an address of its own.
PtrEq(aliased, i, j) == aliased /\ i = j

\* the loop body with the cutoff comparing the distance to the radius of
\* self alone
PairAccelerationOwnRadius(self, other, softening) ==
    LET dx == other.position.x - self.position.x
        dy == other.position.y - self.position.y
        dist_squared == Mul(dx, dx) + Mul(dy, dy) + softening
        dist == Sqrt(dist_squared)
    IN  IF dist < self.radius
        THEN Point2(0, 0)
        ELSE LET force == Div(Mul(G, other.mass), dist_squared)
             IN  Point2(Div(Mul(force, dx), dist), Div(Mul(force, dy), dist))

\* the body of the loop of calculate_acceleration for one `other`, below the
\* identity test: the acceleration that pair adds, <<0, 0>> when the
\* near-field cutoff skips it.  softening is particles[0].mass.log10(), which
\* the loop recomputes for every pair from the same first element.
PairAcceleration(self, other, softening) ==
    LET dx == other.position.x - self.position.x
        dy == other.position.y - self.position.y
        dist_squared == Mul(dx, dx) + Mul(dy, dy) + softening
        dist == Sqrt(dist_squared)
    IN  IF dist < self.radius + other.radius
        THEN Point2(0, 0)
        ELSE LET force == Div(Mul(G, other.mass), dist_squared)
             IN  Point2(Div(Mul(force, dx), dist), Div(Mul(force, dy), dist))

\* the sum of the points f[lo], ..., f[hi], <<0, 0>> when there is none
RECURSIVE SumPoints(_, _, _)
SumPoints(f, lo, hi) ==
    IF lo > hi THEN Point2(0, 0)
    ELSE IF lo = hi THEN f[lo]
    ELSE LET mid == (lo + hi) \div 2
             l == SumPoints(f, lo, mid)
             r == SumPoints(f, mid + 1, hi)
         IN  Point2(l.x + r.x, l.y + r.y)

\* Particle::calculate_acceleration: self, the live particle at index i,
\* against the slice ps (aliased: ps is the live collection itself): the
\* acceleration starts at <<0, 0>> and every `other` that is not skipped
\* adds its pair's acceleration
CalculateAcceleration(self, i, ps, aliased) ==
    LET softening == Log10(ps[1].mass)
        added == [j \in 1..Len(ps) |->
                    IF PtrEq(aliased, i, j)
                    THEN Point2(0, 0)
                    ELSE PairAcceleration(self, ps[j], softening)]
    IN  [self EXCEPT !.acceleration = SumPoints(added, 1, Len(ps))]

\* Particle::update: the leapfrog step of the live particle at index i
\* against the slice ps
ParticleUpdate(self, i, dt, ps, aliased) ==
    LET half == S \div 2
        v1 == Point2(self.velocity.x + Mul(Mul(self.acceleration.x, dt), half),
                     self.velocity.y + Mul(Mul(self.acceleration.y, dt), half))
        p1 == Point2(self.position.x + Mul(v1.x, dt),
                     self.position.y + Mul(v1.y, dt))
        drifted == [self EXCEPT !.velocity = v1, !.position = p1]
        kicked == CalculateAcceleration(drifted, i, ps, aliased)
    IN  [kicked EXCEPT
            !.velocity = Point2(v1.x + Mul(Mul(kicked.acceleration.x, dt), half),
                                v1.y + Mul(Mul(kicked.acceleration.y, dt), half))]

\* ------------------------------------------------------------------------
\* Button and Slider
\* ------------------------------------------------------------------------

\* Button::new
NewButton(bx, by, w, h, text) ==
    [rect |-> [x |-> bx, y |-> by, w |-> w, h |-> h],
     text |-> text,
     clicked |-> FALSE]

\* Button::contains, that is graphics::Rect::contains: the edges count
ButtonContains(b, px, py) ==
    /\ px >= b.rect.x
    /\ px <= b.rect.x + b.rect.w
    /\ py >= b.rect.y
    /\ py <= b.rect.y + b.rect.h

\* Slider::new; text_input is an Option<String>: <<>> is None and <<t>> is
\* Some(t), t the sequence of the characters typed
NewSlider(value, min, max, label, y_pos, text_input) ==
    [value |-> value,
     min |-> min,
     max |-> max,
     label |-> label,
     y_pos |-> y_pos,
     text_input |-> IF text_input THEN << <<>> >> ELSE <<>>]

\* the condition of Slider::handle_click: the click is on the track
SliderHit(sl, px, py) ==
    /\ py >= sl.y_pos
    /\ py <= sl.y_pos + 20 * S
    /\ px >= 150 * S
    /\ px <= 350 * S

\* the assignment of Slider::handle_click
SliderClicked(sl, px) ==
    [sl EXCEPT !.value =
        sl.min + Mul(sl.max - sl.min, Div(px - 150 * S, 200 * S))]

\* ------------------------------------------------------------------------
\* SimulationState
\* ------------------------------------------------------------------------

VARIABLES
    particles,                    \* Vec<Particle>
    particle_count,               \* usize
    initial_mass_range,           \* (f32, f32)
    initial_velocity_multiplier,  \* f32
    paused,                       \* bool
    zoom,                         \* f32
    pan,                          \* Point2<f32>
    buttons,                      \* Vec<Button>
    sliders,                      \* Vec<Slider>
    is_panning,                   \* bool
    last_mouse_pos,               \* Point2<f32>
    adding_mass,                  \* bool
    mass_preview,                 \* Option<Point2<f32>>: <<>> or <<p>>
    last,    \* what the last handler did: "reset", "add", "sweep" (a frame
             \* tick that advanced the particles), "idle" (a frame tick while
             \* paused) or "input" (anything else)
    ticks,   \* the frame ticks that advanced the particles so far
    added,   \* the add_large_mass calls since the last reset
    camera   \* the events that moved the camera (zoom or pan) so far

sim == <<particles, particle_count, initial_mass_range,
         initial_velocity_multiplier, paused, zoom, pan, buttons, sliders,
         is_panning, last_mouse_pos, adding_mass, mass_preview>>

vars == <<sim, last, ticks, added, camera>>

\* ------------------------------------------------------------------------
\* Bounds of the exploration
\* ------------------------------------------------------------------------

\* frame ticks that advance the particles in one behaviour
MaxTicks == 1

\* add_large_mass calls between two resets
MaxAdded == 1

\* camera moves (wheel, W/S/A/D, drag) in one behaviour
MaxCamera == 1

\* characters held by the text field
MaxText == 4

\* the seeds the thread-local generator may start a reset from
Seeds == {17, 431}

\* ------------------------------------------------------------------------
\* rand::thread_rng
\* ------------------------------------------------------------------------

\* the k-th number in [0, 1) of the generator's stream from `seed`
Draw(seed, k) == ((seed + k) * 7919) % S

\* Rng::gen_range(lo..hi) fed with the k-th number of the stream
GenRange(lo, hi, seed, k) == lo + Mul(hi - lo, Draw(seed, k))

\* ------------------------------------------------------------------------
\* SimulationState::new and reset
\* ------------------------------------------------------------------------

\* the buttons SimulationState::new creates
InitialButtons ==
    << NewButton(10 * S, 10 * S, 100 * S, 30 * S, "Run/Pause"),
       NewButton(120 * S, 10 * S, 100 * S, 30 * S, "Reset"),
       NewButton(230 * S, 10 * S, 100 * S, 30 * S, "Add Mass") >>

\* the sliders SimulationState::new creates (sliders[k] of the program is
\* element k + 1 here)
InitialSliders ==
    << NewSlider(S, 100, 10 * S, "Time Speed", 50 * S, FALSE),
       NewSlider(100 * S, 10 * S, 1000 * S, "Particles", 90 * S, TRUE),
       NewSlider(S, 100, 5 * S, "Velocity", 130 * S, FALSE),
       NewSlider(3 * S, 100, 100 * S, "Mass", 170 * S, FALSE),
       NewSlider(S, 100, 10 * S, "Softening", 210 * S, FALSE),
       NewSlider(16, 1, 100, "Time Step", 250 * S, FALSE),
       NewSlider(1000 * S, 100 * S, 5000 * S, "Central Mass", 290 * S, FALSE) >>

\* the k-th orbiter of reset: three numbers of the stream, in the order the
\* loop body draws them (distance, angle, mass)
Orbiter(k, central, range, multiplier, seed) ==
    LET distance == GenRange(100 * S, 300 * S, seed, 3 * k - 2)
        angle == GenRange(0, 2 * PI, seed, 3 * k - 1)
        px == WINDOW_WIDTH \div 2 + Mul(distance, Cos(angle))
        py == WINDOW_HEIGHT \div 2 + Mul(distance, Sin(angle))
        particle == NewParticle(px, py, GenRange(range[1], range[2], seed, 3 * k))
        orbital_speed ==
            Mul(Sqrt(Div(Mul(G, central.mass), distance)), multiplier)
    IN  [particle EXCEPT
            !.velocity = Point2(-Mul(orbital_speed, Sin(angle)),
                                Mul(orbital_speed, Cos(angle)))]

\* reset with the loop running over 0..=particle_count: one orbiter too many
ResetParticlesOneMore(count, central_mass, range, multiplier, seed) ==
    LET central == NewParticle(WINDOW_WIDTH \div 2, WINDOW_HEIGHT \div 2,
                               central_mass)
    IN  [k \in 1..(2 + count) |->
            IF k = 1 THEN central
            ELSE Orbiter(k - 1, central, range, multiplier, seed)]

\* the particles SimulationState::reset leaves: the collection is cleared,
\* the central particle pushed, then particle_count orbiters
ResetParticles(count, central_mass, range, multiplier, seed) ==
    LET central == NewParticle(WINDOW_WIDTH \div 2, WINDOW_HEIGHT \div 2,
                               central_mass)
    IN  [k \in 1..(1 + count) |->
            IF k = 1 THEN central
            ELSE Orbiter(k - 1, central, range, multiplier, seed)]

\* reset taking the central mass from sliders[3], the "Mass" slider
ResetFromMassSlider(seed) ==
    ResetParticles(particle_count, sliders[4].value, initial_mass_range,
                   initial_velocity_multiplier, seed)

\* SimulationState::reset on the current state
Reset(seed) ==
    ResetParticles(particle_count, sliders[7].value, initial_mass_range,
                   initial_velocity_multiplier, seed)

\* SimulationState::new: the fields, then reset()
Init ==
    /\ particle_count = 100
    /\ initial_mass_range = <<S, 5 * S>>
    /\ initial_velocity_multiplier = S
    /\ paused = TRUE
    /\ zoom = S
    /\ pan = Point2(0, 0)
    /\ buttons = InitialButtons
    /\ sliders = InitialSliders
    /\ is_panning = FALSE
    /\ last_mouse_pos = Point2(0, 0)
    /\ adding_mass = FALSE
    /\ mass_preview = <<>>
    /\ \E seed \in Seeds :
          particles = ResetParticles(100, InitialSliders[7].value,
                                     <<S, 5 * S>>, S, seed)
    /\ last = "reset"
    /\ ticks = 0
    /\ added = 0
    /\ camera = 0

\* ------------------------------------------------------------------------
\* EventHandler::update, the frame tick
\* ------------------------------------------------------------------------

\* update with the clone left out: Particle::update is handed the live
\* collection, part of it advanced already
ForceInputLive(live, snapshot) == [ps |-> live, aliased |-> TRUE]

\* the slice update hands to Particle::update, and whether it is the live
\* collection: the clone taken before the loop
ForceInput(live, snapshot) == [ps |-> snapshot, aliased |-> FALSE]

\* the loop of update over the positions lo..hi of `order`: particle
\* order[k] of the live collection is advanced in place, for k from lo to
\* hi.  The positions up to the middle are done first; `first`, a bound
\* variable, holds the collection they leave.
RECURSIVE SweepRange(_, _, _, _, _, _)
SweepRange(live, snapshot, dt, order, lo, hi) ==
    IF lo > hi THEN live
    ELSE IF lo = hi
    THEN LET i == order[lo]
             input == ForceInput(live, snapshot)
         IN  [live EXCEPT
                 ![i] = ParticleUpdate(live[i], i, dt, input.ps,
                                       input.aliased)]
    ELSE LET mid == (lo + hi) \div 2
         IN  CHOOSE last_ps \in
                 {SweepRange(first, snapshot, dt, order, mid + 1, hi) :
                     first \in {SweepRange(live, snapshot, dt, order, lo, mid)}} :
                 TRUE

\* the body of update when not paused, the particles advanced in `order`
SweepInOrder(ps, dt, order) == SweepRange(ps, ps, dt, order, 1, Len(order))

\* the order of `for particle in &mut self.particles`
IndexOrder(n) == [k \in 1..n |-> k]

\* dt of update: DT * time_speed
TimeStep == Mul(DT, sliders[1].value)

\* update with the test of `paused` left out
UpdateEventUnpaused ==
    /\ ticks < MaxTicks
    /\ particles' = SweepInOrder(particles, TimeStep,
                                 IndexOrder(Len(particles)))
    /\ ticks' = ticks + 1
    /\ last' = "sweep"
    /\ UNCHANGED <<particle_count, initial_mass_range,
                   initial_velocity_multiplier, paused, zoom, pan, buttons,
                   sliders, is_panning, last_mouse_pos, adding_mass,
                   mass_preview, added, camera>>

\* EventHandler::update
UpdateEvent ==
    /\ paused \/ ticks < MaxTicks
    /\ IF ~paused
       THEN /\ particles' = SweepInOrder(particles, TimeStep,
                                         IndexOrder(Len(particles)))
            /\ ticks' = ticks + 1
            /\ last' = "sweep"
       ELSE /\ UNCHANGED <<particles, ticks>>
            /\ last' = "idle"
    /\ UNCHANGED <<particle_count, initial_mass_range,
                   initial_velocity_multiplier, paused, zoom, pan, buttons,
                   sliders, is_panning, last_mouse_pos, adding_mass,
                   mass_preview, added, camera>>

\* ------------------------------------------------------------------------
\* Mouse
\* ------------------------------------------------------------------------

\* add_large_mass inserting the new particle at the front
AddLargeMassInFront(ps, px, py) ==
    <<NewParticle(px, py, Mul(sliders[4].value, 100 * S))>> \o ps

\* SimulationState::add_large_mass
AddLargeMass(ps, px, py) ==
    Append(ps, NewParticle(px, py, Mul(sliders[4].value, 100 * S)))

\* the match on the label of the slider that took the click
LabelEffect(sl) ==
    /\ particle_count' =
          IF sl.label = "Particles" THEN sl.value \div S ELSE particle_count
    /\ initial_velocity_multiplier' =
          IF sl.label = "Velocity" THEN sl.value
          ELSE initial_velocity_multiplier
    /\ initial_mass_range' =
          IF sl.label = "Mass"
          THEN <<Mul(sl.value, S \div 2), Mul(sl.value, (3 * S) \div 2)>>
          ELSE initial_mass_range

\* SimulationState::handle_mouse_click
HandleMouseClick(px, py, seed) ==
    LET hit == IF adding_mass THEN {}
               ELSE {i \in 1..Len(buttons) : ButtonContains(buttons[i], px, py)}
        pressed == [i \in 1..Len(buttons) |->
                       IF i \in hit THEN [buttons[i] EXCEPT !.clicked = TRUE]
                       ELSE buttons[i]]
        should_pause == \E i \in hit : buttons[i].text = "Run/Pause"
        clicked_reset == \E i \in hit : buttons[i].text = "Reset"
        start_add_mass == \E i \in hit : buttons[i].text = "Add Mass"
        tracks == IF adding_mass THEN {}
                  ELSE {i \in 1..Len(sliders) : SliderHit(sliders[i], px, py)}
    IN  /\ buttons' = pressed
        /\ IF tracks # {}
           THEN \* the first slider that takes the click ends the handler
                LET i == CHOOSE j \in tracks : \A k \in tracks : j <= k
                    sl == SliderClicked(sliders[i], px)
                IN  /\ sliders' = [sliders EXCEPT ![i] = sl]
                    /\ LabelEffect(sl)
                    /\ last' = "input"
                    /\ UNCHANGED <<particles, paused, is_panning,
                                   last_mouse_pos, adding_mass, mass_preview,
                                   added>>
           ELSE LET places == adding_mass /\ ~start_add_mass /\ py > 50 * S
                    pans == ~adding_mass /\ ~start_add_mass /\ py > 50 * S
                    cleared == IF clicked_reset THEN Reset(seed) ELSE particles
                IN  /\ places => added < MaxAdded
                    /\ paused' = IF should_pause THEN ~paused ELSE paused
                    /\ particles' = IF places THEN AddLargeMass(cleared, px, py)
                                    ELSE cleared
                    /\ adding_mass' = IF start_add_mass THEN TRUE
                                      ELSE IF places THEN FALSE
                                      ELSE adding_mass
                    /\ mass_preview' = IF places THEN <<>> ELSE mass_preview
                    /\ is_panning' = IF pans THEN TRUE ELSE is_panning
                    /\ last_mouse_pos' = IF pans THEN Point2(px, py)
                                         ELSE last_mouse_pos
                    /\ added' = IF places THEN added + 1
                                ELSE IF clicked_reset THEN 0
                                ELSE added
                    /\ last' = IF places THEN "add"
                               ELSE IF clicked_reset THEN "reset"
                               ELSE "input"
                    /\ UNCHANGED <<sliders, particle_count,
                                   initial_velocity_multiplier,
                                   initial_mass_range>>
        /\ UNCHANGED <<zoom, pan, ticks, camera>>

\* EventHandler::mouse_button_down_event
MouseButtonDownEvent(button, px, py, seed) ==
    IF button = "Left"
    THEN HandleMouseClick(px, py, seed)
    ELSE /\ last' = "input"
         /\ UNCHANGED <<sim, ticks, added, camera>>

\* EventHandler::mouse_button_up_event, SimulationState::handle_mouse_release
MouseButtonUpEvent(button) ==
    /\ IF button = "Left"
       THEN /\ buttons' = [i \in 1..Len(buttons) |->
                              [buttons[i] EXCEPT !.clicked = FALSE]]
            /\ is_panning' = FALSE
       ELSE UNCHANGED <<buttons, is_panning>>
    /\ last' = "input"
    /\ UNCHANGED <<particles, particle_count, initial_mass_range,
                   initial_velocity_multiplier, paused, zoom, pan, sliders,
                   last_mouse_pos, adding_mass, mass_preview, ticks, added,
                   camera>>

\* EventHandler::mouse_motion_event, SimulationState::handle_mouse_motion
MouseMotionEvent(px, py) ==
    /\ is_panning => camera < MaxCamera
    /\ IF is_panning
       THEN /\ pan' = Point2(pan.x + Div(px - last_mouse_pos.x, zoom),
                             pan.y + Div(py - last_mouse_pos.y, zoom))
            /\ last_mouse_pos' = Point2(px, py)
            /\ camera' = camera + 1
       ELSE UNCHANGED <<pan, last_mouse_pos, camera>>
    /\ mass_preview' = IF adding_mass THEN <<Point2(px, py)>> ELSE mass_preview
    /\ last' = "input"
    /\ UNCHANGED <<particles, particle_count, initial_mass_range,
                   initial_velocity_multiplier, paused, zoom, buttons,
                   sliders, is_panning, adding_mass, ticks, added>>

\* EventHandler::mouse_wheel_event
MouseWheelEvent(wy) ==
    /\ camera < MaxCamera
    /\ zoom' = Mul(zoom, IF wy > 0 THEN 1100 ELSE 900)
    /\ camera' = camera + 1
    /\ last' = "input"
    /\ UNCHANGED <<particles, particle_count, initial_mass_range,
                   initial_velocity_multiplier, paused, pan, buttons, sliders,
                   is_panning, last_mouse_pos, adding_mass, mass_preview,
                   ticks, added>>

\* ------------------------------------------------------------------------
\* Keyboard
\* ------------------------------------------------------------------------

\* EventHandler::key_down_event
KeyDownEvent(keycode, seed) ==
    /\ keycode \in {"W", "S", "A", "D"} => camera < MaxCamera
    /\ paused' = IF keycode = "Space" THEN ~paused ELSE paused
    /\ particles' = IF keycode = "R" THEN Reset(seed) ELSE particles
    /\ pan' = CASE keycode = "W" -> Point2(pan.x, pan.y + Div(10 * S, zoom))
                [] keycode = "S" -> Point2(pan.x, pan.y - Div(10 * S, zoom))
                [] keycode = "A" -> Point2(pan.x + Div(10 * S, zoom), pan.y)
                [] keycode = "D" -> Point2(pan.x - Div(10 * S, zoom), pan.y)
                [] OTHER -> pan
    /\ camera' = IF keycode \in {"W", "S", "A", "D"} THEN camera + 1
                 ELSE camera
    /\ added' = IF keycode = "R" THEN 0 ELSE added
    /\ last' = IF keycode = "R" THEN "reset" ELSE "input"
    /\ UNCHANGED <<particle_count, initial_mass_range,
                   initial_velocity_multiplier, zoom, buttons, sliders,
                   is_panning, last_mouse_pos, adding_mass, mass_preview,
                   ticks>>

\* the characters the model types: ASCII digits, backspace ('\x08', "BS"),
\* a numeric character that is no ASCII digit ("HALF", the vulgar fraction
\* one half) and a letter
Digits == <<"0", "1", "2", "3", "4", "5", "6", "7", "8", "9">>

DigitValue(c) == (CHOOSE d \in 1..10 : Digits[d] = c) - 1

IsDigit(c) == \E d \in 1..10 : Digits[d] = c

\* char::is_numeric
IsNumeric(c) == IsDigit(c) \/ c = "HALF"

\* the integer a string of ASCII digits spells, from its first k characters
RECURSIVE DigitsValue(_, _)
DigitsValue(t, k) ==
    IF k = 0 THEN 0 ELSE 10 * DigitsValue(t, k - 1) + DigitValue(t[k])

\* str::parse::<f32> of the text field: <<>> is Err, <<v>> is Ok(v)
ParseF32(t) ==
    IF Len(t) = 0 \/ \E k \in 1..Len(t) : ~IsDigit(t[k])
    THEN <<>>
    ELSE <<DigitsValue(t, Len(t)) * S>>

\* text_input_event with the test against min and max left out
TextInputEventUnchecked(character) ==
    /\ IF sliders[2].text_input # <<>>
          /\ (IsNumeric(character) \/ character = "BS")
       THEN LET old == sliders[2].text_input[1]
                text == IF character = "BS"
                        THEN (IF Len(old) = 0 THEN old
                              ELSE SubSeq(old, 1, Len(old) - 1))
                        ELSE Append(old, character)
                parsed == ParseF32(text)
                accepted == parsed # <<>>
            IN  /\ Len(text) <= MaxText
                /\ sliders' =
                      [sliders EXCEPT
                          ![2] = [@ EXCEPT
                                     !.text_input = <<text>>,
                                     !.value = IF accepted THEN parsed[1]
                                               ELSE @]]
                /\ particle_count' = IF accepted THEN parsed[1] \div S
                                     ELSE particle_count
       ELSE UNCHANGED <<sliders, particle_count>>
    /\ last' = "input"
    /\ UNCHANGED <<particles, initial_mass_range,
                   initial_velocity_multiplier, paused, zoom, pan, buttons,
                   is_panning, last_mouse_pos, adding_mass, mass_preview,
                   ticks, added, camera>>

\* EventHandler::text_input_event
TextInputEvent(character) ==
    /\ IF sliders[2].text_input # <<>>
          /\ (IsNumeric(character) \/ character = "BS")
       THEN LET old == sliders[2].text_input[1]
                text == IF character = "BS"
                        THEN (IF Len(old) = 0 THEN old
                              ELSE SubSeq(old, 1, Len(old) - 1))
                        ELSE Append(old, character)
                parsed == ParseF32(text)
                accepted == /\ parsed # <<>>
                            /\ parsed[1] >= sliders[2].min
                            /\ parsed[1] <= sliders[2].max
            IN  /\ Len(text) <= MaxText
                /\ sliders' =
                      [sliders EXCEPT
                          ![2] = [@ EXCEPT
                                     !.text_input = <<text>>,
                                     !.value = IF accepted THEN parsed[1]
                                               ELSE @]]
                /\ particle_count' = IF accepted THEN parsed[1] \div S
                                     ELSE particle_count
       ELSE UNCHANGED <<sliders, particle_count>>
    /\ last' = "input"
    /\ UNCHANGED <<particles, initial_mass_range,
                   initial_velocity_multiplier, paused, zoom, pan, buttons,
                   is_panning, last_mouse_pos, adding_mass, mass_preview,
                   ticks, added, camera>>

\* ------------------------------------------------------------------------
\* Specifications
\* ------------------------------------------------------------------------

\* Points of the window (x, y in pixels)
At(px, py) == <<px * S, py * S>>

RunPauseButton == At(60, 25)

ResetButton == At(170, 25)

AddMassButton == At(280, 25)

\* on the track of the "Particles" slider, at its left end: value 10
ParticlesTrackMin == At(150, 100)

\* on the track of the "Particles" slider, a pixel right of its left end:
\* value 14.95, 14 particles
ParticlesTrack == At(151, 100)

\* on the track of the "Central Mass" slider, at its right end: value 5000
CentralMassTrackMax == At(350, 300)

\* outside every control, 13.4 pixels from the window centre
NearCentre == At(812, 606)

\* the seeds a handler may draw from: a handler that cannot reset draws none,
\* and one seed stands for all
SeedsFor(resets) == IF resets THEN Seeds ELSE {CHOOSE seed \in Seeds : TRUE}

\* a left click at one of `points`
ClickAt(points) ==
    \E p \in points :
        \E seed \in SeedsFor(~adding_mass
                             /\ ButtonContains(buttons[2], p[1], p[2])) :
            MouseButtonDownEvent("Left", p[1], p[2], seed)

\* one of `keys` pressed
KeyOf(keys) ==
    \E k \in keys : \E seed \in SeedsFor(k = "R") : KeyDownEvent(k, seed)

\* The program from its start.  One sweep over the 101 particles of the
\* start costs the model checker seconds, so this specification keeps to a
\* few inputs for each handler.
StartClick == ClickAt({ParticlesTrackMin})

StartRelease == MouseButtonUpEvent("Left")

StartMotion == MouseMotionEvent(NearCentre[1], NearCentre[2])

StartWheel == MouseWheelEvent(S)

StartKey == KeyOf({"Space", "R"})

StartText == TextInputEvent("BS")

Next ==
    \/ UpdateEvent
    \/ StartClick
    \/ StartRelease
    \/ StartMotion
    \/ StartWheel
    \/ StartKey
    \/ StartText

Spec == Init /\ [][Next]_vars

\* A state the program reaches from its start: the "Particles" slider is
\* clicked at its left end (10 particles), with `fast` the "Time Speed",
\* "Velocity" and "Central Mass" sliders are clicked at their right ends, the
\* button is released and R is pressed.  The frame ticks of the
\* specifications below sweep over 11 particles instead of 101.
SmallSliders(fast) ==
    [i \in 1..Len(InitialSliders) |->
        IF i = 2 THEN SliderClicked(InitialSliders[i], ParticlesTrackMin[1])
        ELSE IF fast /\ i \in {1, 3, 7}
             THEN SliderClicked(InitialSliders[i], 350 * S)
             ELSE InitialSliders[i]]

InitSmall(settings) ==
    /\ \E fast \in settings :
          /\ sliders = SmallSliders(fast)
          /\ initial_velocity_multiplier = SmallSliders(fast)[3].value
    /\ particle_count = sliders[2].value \div S
    /\ initial_mass_range = <<S, 5 * S>>
    /\ paused = TRUE
    /\ zoom = S
    /\ pan = Point2(0, 0)
    /\ buttons = InitialButtons
    /\ is_panning = FALSE
    /\ last_mouse_pos = Point2(0, 0)
    /\ adding_mass = FALSE
    /\ mass_preview = <<>>
    /\ \E seed \in Seeds : particles = Reset(seed)
    /\ last = "reset"
    /\ ticks = 0
    /\ added = 0
    /\ camera = 0

\* The simulation running: pause, run and frame ticks, at the default and at
\* the fast settings.
InitSim == InitSmall({FALSE, TRUE})

SimClick == ClickAt({RunPauseButton})

SimRelease == MouseButtonUpEvent("Left")

SimMotion == MouseMotionEvent(NearCentre[1], NearCentre[2])

SimWheel == MouseWheelEvent(S)

SimKey == KeyOf({"R"})

SimText == TextInputEvent("BS")

NextSim ==
    \/ UpdateEvent
    \/ SimClick
    \/ SimRelease
    \/ SimMotion
    \/ SimWheel
    \/ SimKey
    \/ SimText

SpecSim == InitSim /\ [][NextSim]_vars

\* The collection between resets: the add-mass mode, clicks on and off the
\* controls, frame ticks, resets.
InitAdd == InitSmall({FALSE})

AddClick == ClickAt({AddMassButton, NearCentre, ParticlesTrackMin})

AddRelease == MouseButtonUpEvent("Left")

AddKey == KeyOf({"Space", "R"})

AddText == TextInputEvent("BS")

NextAdd ==
    \/ UpdateEvent
    \/ AddClick
    \/ AddRelease
    \/ AddKey
    \/ AddText

SpecAdd == InitAdd /\ [][NextAdd]_vars

\* Resets under changing settings: the "Particles" and "Central Mass"
\* sliders, the Reset button and the R key, added masses.
InitReset == InitSmall({FALSE})

ResetClick ==
    ClickAt({ResetButton, AddMassButton, NearCentre, ParticlesTrack,
             CentralMassTrackMax})

ResetKey == KeyOf({"R"})

NextReset ==
    \/ ResetClick
    \/ ResetKey

SpecReset == InitReset /\ [][NextReset]_vars

\* The central mass and a mass added next to it: the "Central Mass" slider
\* at both ends of its track, the R key, the add-mass mode.
CentralMassTrackMin == At(150, 300)

InitForce == InitSmall({FALSE})

ForceClick ==
    ClickAt({AddMassButton, NearCentre, CentralMassTrackMin,
             CentralMassTrackMax})

ForceRelease == MouseButtonUpEvent("Left")

ForceKey == KeyOf({"R"})

NextForce ==
    \/ ForceClick
    \/ ForceRelease
    \/ ForceKey

SpecForce == InitForce /\ [][NextForce]_vars

\* The particle count edited: characters typed into the text field of the
\* "Particles" slider, clicks on its track.  No reset follows, so the
\* collection stays at 11 particles whatever the count.
ParticlesTrackMax == At(350, 100)

InitInput == InitSmall({FALSE})

InputText == \E c \in {"0", "1", "5", "HALF", "x", "BS"} : TextInputEvent(c)

InputClick == ClickAt({ParticlesTrack, ParticlesTrackMax})

InputRelease == MouseButtonUpEvent("Left")

NextInput ==
    \/ InputText
    \/ InputClick
    \/ InputRelease

SpecInput == InitInput /\ [][NextInput]_vars

\* ------------------------------------------------------------------------
\* Properties of the frame tick (SpecSim)
\* ------------------------------------------------------------------------

\* C1: a frame tick in a state where paused = true leaves the particle
\* collection as it is, every position and velocity included; so does any
\* number of such ticks in a row.
C1_PauseGating == [][(paused /\ UpdateEvent) => particles' = particles]_vars

\* the simulation ran, was paused, and a frame tick came while it was paused
C1_PausedTickSeen == paused /\ last = "idle" /\ ticks > 0

\* orders the loop of update could advance n particles in
ReverseOrder(n) == [k \in 1..n |-> n + 1 - k]

RotatedOrder(n) == [k \in 1..n |-> (k % n) + 1]

EvensFirstOrder(n) ==
    [k \in 1..n |-> IF k <= n \div 2 THEN 2 * k ELSE 2 * (k - n \div 2) - 1]

Orders(n) == {ReverseOrder(n), RotatedOrder(n), EvensFirstOrder(n)}

\* C3: the collection an unpaused frame tick leaves is the collection the
\* loop would leave advancing the particles in any other order: no
\* particle's force evaluation sees a particle that was advanced before it.
C3_SnapshotThenMutate ==
    [][(~paused /\ UpdateEvent) =>
          \A order \in Orders(Len(particles)) :
              particles' = SweepInOrder(particles, TimeStep, order)]_vars

\* a frame tick advanced the particles and left an orbiter accelerated
C3_SweepSeen ==
    /\ last = "sweep"
    /\ \E i \in 2..Len(particles) : particles[i].acceleration # Point2(0, 0)

\* C4: the acceleration an unpaused frame tick leaves in particle i is the
\* sum of what the other particles of the snapshot add at its new position:
\* its own snapshot entry adds nothing.
C4_SelfExclusion ==
    [][(~paused /\ UpdateEvent) =>
          \A i \in 1..Len(particles) :
              particles'[i].acceleration =
                  CalculateAcceleration(particles'[i], i, particles,
                                        TRUE).acceleration]_vars

\* ------------------------------------------------------------------------
\* Properties of reset (SpecReset)
\* ------------------------------------------------------------------------

\* C2: right after a reset the collection holds 1 + particle_count
\* particles, and the first is the central mass: at the window centre, at
\* rest, its mass the value of the "Central Mass" slider.
C2_ResetShape ==
    last = "reset" =>
        /\ Len(particles) = 1 + particle_count
        /\ particles[1].position =
              Point2(WINDOW_WIDTH \div 2, WINDOW_HEIGHT \div 2)
        /\ particles[1].velocity = Point2(0, 0)
        /\ particles[1].mass = sliders[7].value

\* a reset after both the "Particles" and the "Central Mass" slider moved
C2_ResetAfterSettingsSeen ==
    /\ last = "reset"
    /\ particle_count = 14
    /\ particles[1].mass = 5000 * S

\* ------------------------------------------------------------------------
\* Properties of the collection between resets (SpecAdd)
\* ------------------------------------------------------------------------

\* C6: a step that is no reset removes and reorders nothing: the collection
\* keeps its length or grows by the one particle add_large_mass appends at
\* its end, every particle there before keeps its index, mass and radius
\* (the central particle at index 0 among them), and only a frame tick or
\* add_large_mass changes the collection at all.
C6_AppendOnly ==
    [][last' # "reset" =>
          /\ Len(particles') \in {Len(particles), Len(particles) + 1}
          /\ \A i \in 1..Len(particles) :
                /\ particles'[i].mass = particles[i].mass
                /\ particles'[i].radius = particles[i].radius
          /\ last' = "add" <=> Len(particles') = Len(particles) + 1
          /\ last' = "add" =>
                SubSeq(particles', 1, Len(particles)) = particles
          /\ last' \notin {"add", "sweep"} => particles' = particles]_vars

\* a mass was added after a frame tick had advanced the particles
C6_AddAfterSweepSeen ==
    /\ last = "add"
    /\ ticks > 0
    /\ Len(particles) = particle_count + 2

\* the click is on a control: inside a button or on the track of a slider
InUIArea(px, py) ==
    \/ \E i \in 1..Len(buttons) : ButtonContains(buttons[i], px, py)
    \/ \E i \in 1..Len(sliders) : SliderHit(sliders[i], px, py)

\* C10: in add-mass mode a left click on a control adds no particle.
C10_NoMassInUIArea ==
    [][\A p \in {AddMassButton, NearCentre, ParticlesTrackMin} :
          (adding_mass /\ InUIArea(p[1], p[2]) /\ ClickAt({p}))
              => particles' = particles]_vars

\* ------------------------------------------------------------------------
\* Properties of the force evaluation (SpecForce)
\* ------------------------------------------------------------------------

\* the centre-to-centre distance of two particles
CentreDistance(a, b) ==
    Sqrt(Mul(b.position.x - a.position.x, b.position.x - a.position.x)
         + Mul(b.position.y - a.position.y, b.position.y - a.position.y))

\* the distance calculate_acceleration compares with the radii
SoftenedDistance(a, b) ==
    Sqrt(Mul(b.position.x - a.position.x, b.position.x - a.position.x)
         + Mul(b.position.y - a.position.y, b.position.y - a.position.y)
         + Log10(particles[1].mass))

\* what particle j adds to the acceleration of particle i
PairOf(i, j) ==
    PairAcceleration(particles[i], particles[j], Log10(particles[1].mass))

\* C5 as stated: two particles whose centres are closer than the sum of
\* their radii add no acceleration to each other.
C5_CutoffByCentreDistance ==
    \A i, j \in 1..Len(particles) :
        (i # j /\ CentreDistance(particles[i], particles[j])
                     < particles[i].radius + particles[j].radius)
            => PairOf(i, j) = Point2(0, 0)

\* C5 amended: two particles whose softened distance, the square root of
\* dx^2 + dy^2 + log10(particles[0].mass), is less than the sum of their
\* radii add no acceleration to each other.
C5_CutoffBySoftenedDistance ==
    \A i, j \in 1..Len(particles) :
        (i # j /\ SoftenedDistance(particles[i], particles[j])
                     < particles[i].radius + particles[j].radius)
            => PairOf(i, j) = Point2(0, 0)

\* a mass was added within the cutoff of the central mass
C5_PairInsideCutoffSeen ==
    /\ last = "add"
    /\ SoftenedDistance(particles[1], particles[Len(particles)])
          < particles[1].radius + particles[Len(particles)].radius

\* C7: the collection is never empty and the mass of its first particle
\* lies in [100, 5000], the range of the "Central Mass" slider: it is at
\* least 1 and its log10, the softening term, is not negative.
C7_CentralMassInRange ==
    /\ Len(particles) >= 1
    /\ particles[1].mass >= 100 * S
    /\ particles[1].mass <= 5000 * S
    /\ Log10(particles[1].mass) >= 0

\* a reset at the least central mass the slider gives, a mass added since
C7_LeastCentralMassSeen ==
    /\ particles[1].mass = 100 * S
    /\ added > 0

\* ------------------------------------------------------------------------
\* Properties of the particle count (SpecInput)
\* ------------------------------------------------------------------------

\* the text field of the "Particles" slider holds an entry that does not
\* parse or parses to a value outside [min, max]
EntryRejected(sl) ==
    LET parsed == ParseF32(sl.text_input[1])
    IN  parsed = <<>> \/ parsed[1] < sl.min \/ parsed[1] > sl.max

\* C9: particle_count lies in [10, 1000] in every state, and a character
\* typed that leaves a rejected entry in the text field leaves
\* particle_count as it was.
C9_ParticleCountInRange ==
    /\ [](particle_count >= 10 /\ particle_count <= 1000)
    /\ [][((\E c \in {"0", "1", "5", "HALF", "x", "BS"} : TextInputEvent(c))
              /\ EntryRejected(sliders'[2]))
             => particle_count' = particle_count]_vars

\* "5000" was typed: 500 was taken at the third character, the fourth left
\* the count alone
C9_OutOfRangeEntrySeen ==
    /\ sliders[2].text_input = << <<"5", "0", "0", "0">> >>
    /\ particle_count = 500

\* ------------------------------------------------------------------------
\* Properties of the start (Spec)
\* ------------------------------------------------------------------------

\* C8: initial_mass_range is (m * 0.5, m * 1.5), m the value of the "Mass"
\* slider, in every state.
C8_MassRangeFollowsSlider ==
    initial_mass_range =
        <<Mul(sliders[4].value, S \div 2), Mul(sliders[4].value, (3 * S) \div 2)>>

====
